---- MODULE Spec2Model ----
(***************************************************************************)
(* Model of the JIRA/Snowflake MCP tools: src/src/tools.py (the four tool  *)
(* handlers) and src/database.py (query execution, row formatting, label   *)
(* lookup).                                                                *)
(*                                                                         *)
(* Values.  A Python cell value is a record [t, v]: t is its type ("null", *)
(* "int", "str") and v its printed form, so that str(x) is x.v and         *)
(* str(None) = "None", str(1) = str("1") = "1".  Column text that the code *)
(* splits or strips (COMPONENT_NAMES) is a sequence of one-character       *)
(* strings.  A dict is a function on its keys; a dict whose insertion      *)
(* order matters (issues_by_id, found_issues) is the sequence of its       *)
(* values in insertion order.  Scalar columns that no handler branches on  *)
(* (SUMMARY, PRIORITY, ...) are left out of the rows and of the records,   *)
(* and so is the echo of the arguments in filters_applied.                 *)
(***************************************************************************)
EXTENDS Integers, Sequences, FiniteSets, TLC

VARIABLES
    authMethod,      \* config.SNOWFLAKE_AUTH_METHOD
    op,              \* the tool being run: "none", "list", "details", "summary", "links"
    pc,              \* "idle", "primary", "enrich", "done"
    snowflake_token, \* what get_snowflake_token returned
    test_token,      \* what get_auth_token returned (private key authentication)
    filters,         \* the date arguments of list_jira_issues while its query is built
    sql_conditions,  \* predicate fragments of the primary query in flight
    issue_keys,      \* argument of get_jira_issue_details
    issue_key,       \* argument of get_jira_issue_links
    rows,            \* rows returned by the primary query
    queryFailed,     \* whether the query layer failed on the primary query
    queryRaised,     \* whether the query layer raised into the handler
    issues,          \* issues_by_id / found_issues, in insertion order
    issue_ids,       \* ids handed to the lookups
    not_found,       \* not_found_keys of get_jira_issue_details
    tasks,           \* the lookups by id: status and returned mapping
    queries,         \* the queries started in this invocation, in order
    result           \* the dict returned to the caller (or NoResult)

vars == <<authMethod, op, pc, snowflake_token, test_token, filters, sql_conditions,
          issue_keys, issue_key, rows, queryFailed, queryRaised, issues, issue_ids,
          not_found, tasks, queries, result>>

----------------------------------------------------------------------------
(* Bounds of the model *)

MaxRows == 2           \* rows in a response to a primary query
MaxAggRows == 3        \* rows in an input of the aggregation specification
MaxDays == 2           \* day counts range over -1..MaxDays
MaxLen == 4            \* characters in a string handed to sanitize_sql_value
MaxIds == 2            \* ids in a list handed to get_issue_labels on its own
MaxTermChars == 4      \* characters in the components argument of list_jira_issues

----------------------------------------------------------------------------
(* Python values *)

None == [t |-> "null", v |-> "None"]
IntCell(n) == [t |-> "int", v |-> ToString(n)]
StrCell(s) == [t |-> "str", v |-> s]

\* str(x)
PyStr(x) == x.v

\* strings whose characters matter are sequences of characters
NoneText == [t |-> "null", v |-> <<>>]
Text(chars) == [t |-> "str", v |-> chars]

\* bool(x) of a scalar cell: None, "" and 0 are falsy
Truthy(x) == x.t # "null" /\ x.v # "" /\ ~(x.t = "int" /\ x.v = "0")

\* d.get(k) and d.get(k, default) of a dict d
Get(d, k) == IF k \in DOMAIN d THEN d[k] ELSE None
GetOr(d, k, default) == IF k \in DOMAIN d THEN d[k] ELSE default

EmptyDict == [k \in {} |-> None]

Range(s) == {s[i] : i \in 1..Len(s)}

\* x in list
Contains(s, x) == \E i \in 1..Len(s) : s[i] = x

\* all sequences over S of length at most n
SeqsUpTo(S, n) == UNION {[1..k -> S] : k \in 0..n}

----------------------------------------------------------------------------
(* src/database.py *)

\* format_snowflake_row without the test of the width: the columns the row
\* has a value for
format_snowflake_row_no_width_test(row_data, columns) ==
    [c \in {columns[i] : i \in (1..Len(columns)) \cap (1..Len(row_data))} |->
        row_data[CHOOSE i \in 1..Len(columns) : columns[i] = c]]

\* format_snowflake_row: {} when the width differs from the column layout
format_snowflake_row(row_data, columns) ==
    IF Len(row_data) # Len(columns)
    THEN EmptyDict
    ELSE [c \in Range(columns) |->
             row_data[CHOOSE i \in 1..Len(columns) : columns[i] = c]]

NoResponse == [failed |-> TRUE]

\* execute_snowflake_query: the rows of the response; [] when the request
\* failed (make_snowflake_request returned None), when an exception was
\* caught, and when the response holds no data
execute_snowflake_query(response) ==
    IF response = NoResponse THEN <<>>
    ELSE IF "raised" \in DOMAIN response THEN <<>>
    ELSE IF "data" \in DOMAIN response THEN response.data
    ELSE IF "resultSet" \in DOMAIN response /\ "data" \in DOMAIN response.resultSet
         THEN response.resultSet.data
    ELSE <<>>

\* success flag of execute_snowflake_query (what track_snowflake_query is told)
QuerySucceeded(response) ==
    /\ response # NoResponse
    /\ "raised" \notin DOMAIN response
    /\ "auth_error" \notin DOMAIN response

----------------------------------------------------------------------------
(* Row aggregation of list_jira_issues *)

ListColumns == <<"ID", "ISSUE_KEY", "COMPONENT_NAMES">>

IsSpace(c) == c = " "

RECURSIVE LStrip(_)
LStrip(s) == IF s # <<>> /\ IsSpace(s[1]) THEN LStrip(Tail(s)) ELSE s

RECURSIVE RStrip(_)
RStrip(s) ==
    IF s # <<>> /\ IsSpace(s[Len(s)]) THEN RStrip(SubSeq(s, 1, Len(s) - 1)) ELSE s

\* str.strip()
Strip(s) == RStrip(LStrip(s))

\* positions at which the separator "||" starts
SepAt(s) == {i \in 1..(Len(s) - 1) : s[i] = "|" /\ s[i + 1] = "|"}

Min(S) == CHOOSE x \in S : \A y \in S : x <= y

\* str.split("||"): left to right, non-overlapping
RECURSIVE SplitSep(_)
SplitSep(s) ==
    IF SepAt(s) = {} THEN <<s>>
    ELSE LET i == Min(SepAt(s))
         IN  <<SubSeq(s, 1, i - 1)>> \o SplitSep(SubSeq(s, i + 2, Len(s)))

\* [n.strip() for n in comp_names_str.split("||") if n and n.strip()]
RECURSIVE StripNonEmpty(_)
StripNonEmpty(parts) ==
    IF parts = <<>> THEN <<>>
    ELSE IF parts[1] # <<>> /\ Strip(parts[1]) # <<>>
         THEN <<Strip(parts[1])>> \o StripNonEmpty(Tail(parts))
         ELSE StripNonEmpty(Tail(parts))

ComponentNames(comp_names_str) == StripNonEmpty(SplitSep(comp_names_str))

\* AppendUnique without the test "name not in current_components"
AppendUniqueNoTest(current_components, names) == current_components \o names

\* for name in ...: if name not in current_components: append
RECURSIVE AppendUnique(_, _)
AppendUnique(current_components, names) ==
    IF names = <<>> THEN current_components
    ELSE AppendUnique(
             IF Contains(current_components, names[1])
             THEN current_components
             ELSE Append(current_components, names[1]),
             Tail(names))

\* index of the entry of issues_by_id with the given key (0 when absent)
IndexOfId(entries, issue_id_str) ==
    IF \E i \in 1..Len(entries) : PyStr(entries[i].id) = issue_id_str
    THEN CHOOSE i \in 1..Len(entries) : PyStr(entries[i].id) = issue_id_str
    ELSE 0

\* row_dict.get("COMPONENT_NAMES") or ""
CompNamesStr(row_dict) ==
    LET c == Get(row_dict, "COMPONENT_NAMES")
    IN  IF c.t = "null" THEN <<>> ELSE c.v

\* ListRowStep without the test of issues_by_id: every row starts a record
ListRowStepAlwaysNew(acc, row) ==
    LET row_dict == format_snowflake_row(row, ListColumns)
        issue_id == Get(row_dict, "ID")
    IN  IF issue_id.t = "null" THEN acc
        ELSE [issues |-> Append(acc.issues,
                  [id |-> issue_id, key |-> Get(row_dict, "ISSUE_KEY"),
                   component |-> ComponentNames(CompNamesStr(row_dict)),
                   component_name |-> None]),
              issue_ids |-> Append(acc.issue_ids, PyStr(issue_id))]

\* one iteration of the loop over rows (tools.py 211-258)
ListRowStep(acc, row) ==
    LET row_dict == format_snowflake_row(row, ListColumns)
        issue_id == Get(row_dict, "ID")
    IN  IF issue_id.t = "null" THEN acc
        ELSE
        LET issue_id_str == PyStr(issue_id)
            isNew == IndexOfId(acc.issues, issue_id_str) = 0
            entries == IF isNew
                       THEN Append(acc.issues,
                                [id |-> issue_id,
                                 key |-> Get(row_dict, "ISSUE_KEY"),
                                 component |-> <<>>,
                                 component_name |-> None])
                       ELSE acc.issues
            ids == IF isNew THEN Append(acc.issue_ids, issue_id_str)
                   ELSE acc.issue_ids
            k == IndexOfId(entries, issue_id_str)
            comp_names_str == CompNamesStr(row_dict)
            current_components ==
                AppendUnique(entries[k].component, ComponentNames(comp_names_str))
        IN  IF comp_names_str # <<>>
            THEN [issues |-> [entries EXCEPT ![k] =
                      [@ EXCEPT !.component = current_components,
                                !.component_name =
                                    IF current_components # <<>>
                                    THEN StrCell(current_components[1])
                                    ELSE None]],
                  issue_ids |-> ids]
            ELSE [issues |-> entries, issue_ids |-> ids]

RECURSIVE AggregateListRowsFrom(_, _)
AggregateListRowsFrom(acc, rs) ==
    IF rs = <<>> THEN acc
    ELSE AggregateListRowsFrom(ListRowStep(acc, rs[1]), Tail(rs))

AggregateListRows(rs) ==
    AggregateListRowsFrom([issues |-> <<>>, issue_ids |-> <<>>], rs)

----------------------------------------------------------------------------
(* Lookups by issue id *)

LabelColumns == <<"ISSUE", "LABEL">>

\* the one-digit decimal strings
DecimalStrings == {ToString(n) : n \in 0..9}
IsDecimal(s) == s \in DecimalStrings

\* the string of the one character U+00B2, SUPERSCRIPT TWO
SuperscriptTwo == "U+00B2"

\* str.isdigit() on the id strings of the model: true of the decimal digits
\* and of the other characters Unicode calls digits, superscripts among them
DigitStrings == DecimalStrings \cup {SuperscriptTwo}
IsDigit(s) == s \in DigitStrings

\* sanitized_ids: the ids that are all digits, as strings
RECURSIVE SanitizedIds(_)
SanitizedIds(ids) ==
    IF ids = <<>> THEN <<>>
    ELSE IF IsDigit(ids[1]) THEN <<ids[1]>> \o SanitizedIds(Tail(ids))
         ELSE SanitizedIds(Tail(ids))

\* LookupQueries without the two early returns: a query for any id list
LookupQueriesAlways(ids) == TRUE

\* whether the lookup reaches execute_snowflake_query
LookupQueries(ids) == ids # <<>> /\ SanitizedIds(ids) # <<>>

\* labels_data[issue_id].append(label), creating the list when absent
AddToMapping(m, k, x) ==
    IF k \in DOMAIN m THEN [m EXCEPT ![k] = Append(@, x)]
    ELSE m @@ (k :> <<x>>)

\* FoldRelation that keys the mapping by the ISSUE cell as it arrived, type
\* and all, where the code keys it by str(ISSUE)
RECURSIVE FoldRelationRawKeys(_, _, _)
FoldRelationRawKeys(m, rs, columns) ==
    IF rs = <<>> THEN m
    ELSE LET row_dict == format_snowflake_row(rs[1], columns)
             issue == Get(row_dict, columns[1])
             value == Get(row_dict, columns[2])
         IN  FoldRelationRawKeys(
                 IF Truthy(issue) /\ Truthy(value)
                 THEN AddToMapping(m, issue.t \o ":" \o issue.v, value)
                 ELSE m,
                 Tail(rs), columns)

\* the loop over the rows of a lookup (database.py 163-171)
RECURSIVE FoldRelation(_, _, _)
FoldRelation(m, rs, columns) ==
    IF rs = <<>> THEN m
    ELSE LET row_dict == format_snowflake_row(rs[1], columns)
             issue_id == PyStr(Get(row_dict, columns[1]))
             value == Get(row_dict, columns[2])
         IN  FoldRelation(
                 IF issue_id # "" /\ Truthy(value)
                 THEN AddToMapping(m, issue_id, value)
                 ELSE m,
                 Tail(rs), columns)

\* get_issue_labels: {} without a query when no id survives validation, and
\* otherwise the mapping folded from the rows execute_snowflake_query returns
get_issue_labels(ids, response) ==
    IF ~LookupQueries(ids) THEN EmptyDict
    ELSE FoldRelation(EmptyDict, execute_snowflake_query(response), LabelColumns)

\* get_issue_comments and get_issue_links of the database layer: a mapping
\* from id string to the list of related values, empty when the lookup fails
CommentColumns == <<"ISSUE", "COMMENT">>
LinkColumns == <<"ISSUE", "LINK">>

get_issue_comments(ids, response) ==
    IF ~LookupQueries(ids) THEN EmptyDict
    ELSE FoldRelation(EmptyDict, execute_snowflake_query(response), CommentColumns)

get_issue_links(ids, response) ==
    IF ~LookupQueries(ids) THEN EmptyDict
    ELSE FoldRelation(EmptyDict, execute_snowflake_query(response), LinkColumns)

Relations == {"labels", "comments", "links"}

LookupResult(r, ids, response) ==
    CASE r = "labels" -> get_issue_labels(ids, response)
      [] r = "comments" -> get_issue_comments(ids, response)
      [] r = "links" -> get_issue_links(ids, response)

IdleTask == [status |-> "idle", data |-> EmptyDict]
NoTasks == [r \in Relations |-> IdleTask]

\* a lookup that is started: running when it issues a query, and settled
\* with an empty mapping at once when it does not
StartedTask(ids) ==
    IF LookupQueries(ids) THEN [status |-> "running", data |-> EmptyDict]
    ELSE [status |-> "ok", data |-> EmptyDict]

\* get_issue_enrichment_data_concurrent: the three lookups are started together
StartEnrichment(ids) == [r \in Relations |-> StartedTask(ids)]

\* queries that the started lookups issue, in the order they are started
StartedQueries(ids, rels) ==
    IF LookupQueries(ids) THEN rels ELSE <<>>

\* AllSettled that gives up waiting at the first failure
SettledOrOneFailed(ts) ==
    \/ \A r \in Relations : ts[r].status # "running"
    \/ \E r \in Relations : ts[r].status = "failed"

\* the call returns when no lookup is running any more
AllSettled(ts) == \A r \in Relations : ts[r].status # "running"

----------------------------------------------------------------------------
(* Credentials *)

Raised == [t |-> "raise", v |-> "error"]

TokenValues == {None, StrCell(""), StrCell("tok")}
HeaderValues == {None, StrCell(""), StrCell("tok"), Raised}
JwtValues == {None, StrCell(""), StrCell("jwt"), Raised}

\* get_snowflake_token: stdio is MCP_TRANSPORT == "stdio" or INTERNAL_GATEWAY;
\* header is the X-Snowflake-Token header (None without a request context,
\* Raised when reading it raises)
get_snowflake_token(stdio, method, config_token, header) ==
    IF stdio
    THEN IF method = "private_key" THEN None ELSE config_token
    ELSE IF header.t = "str" /\ Truthy(header) THEN header ELSE None

\* AuthCheck without the check of the token
AuthCheckNoTokenCheck(method, token, jwt) ==
    IF method = "private_key" /\ jwt = Raised
    THEN "JWT token error"
    ELSE IF method = "private_key" /\ ~Truthy(jwt)
    THEN "Failed to generate JWT token for private key authentication"
    ELSE ""

\* the checks at the top of every handler: "" when they pass, and otherwise
\* the message of the error result
AuthCheck(method, token, jwt) ==
    IF ~Truthy(token) /\ method = "token"
    THEN "No Snowflake token available"
    ELSE IF method = "private_key" /\ jwt = Raised
    THEN "JWT token error"
    ELSE IF method = "private_key" /\ ~Truthy(jwt)
    THEN "Failed to generate JWT token for private key authentication"
    ELSE ""

----------------------------------------------------------------------------
(* sanitize_sql_value (database.py 20-26) *)

Quote == "'"

\* str(value) of a value that is no string, as characters; the numbers of the
\* model have one digit
PyStrChars(value) ==
    IF value.t = "null" THEN <<"N", "o", "n", "e">> ELSE <<value.v>>

\* value.replace("'", "''")
RECURSIVE ReplaceQuotes(_)
ReplaceQuotes(chars) ==
    IF chars = <<>> THEN <<>>
    ELSE (IF chars[1] = Quote THEN <<Quote, Quote>> ELSE <<chars[1]>>)
         \o ReplaceQuotes(Tail(chars))

\* value.replace("'", "''", 1): only the first quote is doubled
RECURSIVE ReplaceFirstQuote(_)
ReplaceFirstQuote(chars) ==
    IF chars = <<>> THEN <<>>
    ELSE IF chars[1] = Quote THEN <<Quote, Quote>> \o Tail(chars)
    ELSE <<chars[1]>> \o ReplaceFirstQuote(Tail(chars))

\* sanitize_sql_value that doubles the first quote only
sanitize_sql_value_first_only(value) ==
    IF value.t # "str" THEN Text(PyStrChars(value))
    ELSE Text(ReplaceFirstQuote(value.v))

sanitize_sql_value(value) ==
    IF value.t # "str" THEN Text(PyStrChars(value))
    ELSE Text(ReplaceQuotes(value.v))

----------------------------------------------------------------------------
(* Predicates of list_jira_issues *)

DayValues == -1..MaxDays

\* the defaults of the arguments of list_jira_issues (tools.py 58-68)
NoFilters == [project |-> NoneText, issue_type |-> NoneText, status |-> NoneText,
              priority |-> NoneText, search_text |-> NoneText,
              components |-> NoneText,
              created_days |-> 0, updated_days |-> 0, resolved_days |-> 0,
              timeframe |-> 0]

\* every combination of the date arguments, the others at their defaults
Filters ==
    {[NoFilters EXCEPT !.created_days = c, !.updated_days = u,
                       !.resolved_days = r, !.timeframe = t] :
        c \in DayValues, u \in DayValues, r \in DayValues, t \in DayValues}

Fragment(kind, days) == [kind |-> kind, days |-> days]

\* date_conditions (tools.py 140-150)
DateConditions(f) ==
    (IF f.created_days > 0 THEN <<Fragment("created", f.created_days)>> ELSE <<>>)
    \o (IF f.updated_days > 0 THEN <<Fragment("updated", f.updated_days)>> ELSE <<>>)
    \o (IF f.resolved_days > 0 THEN <<Fragment("resolved", f.resolved_days)>> ELSE <<>>)

\* sql_conditions after the date filters are added (tools.py 152-160)
\* BuildConditions without the test of date_conditions
BuildConditionsTimeframeAlways(f) ==
    LET date_conditions == DateConditions(f)
        with_timeframe ==
            IF f.timeframe > 0
            THEN <<Fragment("timeframe", f.timeframe)>>
            ELSE <<>>
    IN  with_timeframe \o date_conditions

BuildConditions(f) ==
    LET date_conditions == DateConditions(f)
        with_timeframe ==
            IF f.timeframe > 0 /\ date_conditions = <<>>
            THEN <<Fragment("timeframe", f.timeframe)>>
            ELSE <<>>
    IN  with_timeframe \o date_conditions

\* bool(x) of an optional string argument
TruthyText(x) == x.t = "str" /\ x.v # <<>>

\* str.upper() and str.lower(), character by character; the letters of the
\* model are a, b, A and B
Upper(chars) ==
    [i \in 1..Len(chars) |->
        CASE chars[i] = "a" -> "A" [] chars[i] = "b" -> "B" [] OTHER -> chars[i]]
Lower(chars) ==
    [i \in 1..Len(chars) |->
        CASE chars[i] = "A" -> "a" [] chars[i] = "B" -> "b" [] OTHER -> chars[i]]

\* f"{column} = '{value}'"
Equality(kind, column, value) == [kind |-> kind, column |-> column, equals |-> value]

\* ScalarConditions that tests "is not None" instead of the truth value and
\* compares the project as it is given
ScalarConditionsNotNone(f) ==
    (IF f.project.t # "null"
     THEN <<Equality("project", "i.PROJECT", sanitize_sql_value(f.project))>>
     ELSE <<>>)
    \o (IF f.issue_type.t # "null"
        THEN <<Equality("issue_type", "i.ISSUETYPE", sanitize_sql_value(f.issue_type))>>
        ELSE <<>>)
    \o (IF f.status.t # "null"
        THEN <<Equality("status", "i.ISSUESTATUS", sanitize_sql_value(f.status))>>
        ELSE <<>>)
    \o (IF f.priority.t # "null"
        THEN <<Equality("priority", "i.PRIORITY", sanitize_sql_value(f.priority))>>
        ELSE <<>>)

\* the fragments of project, issue_type, status and priority (tools.py 108-118)
ScalarConditions(f) ==
    (IF TruthyText(f.project)
     THEN <<Equality("project", "i.PROJECT",
                     sanitize_sql_value(Text(Upper(f.project.v))))>>
     ELSE <<>>)
    \o (IF TruthyText(f.issue_type)
        THEN <<Equality("issue_type", "i.ISSUETYPE", sanitize_sql_value(f.issue_type))>>
        ELSE <<>>)
    \o (IF TruthyText(f.status)
        THEN <<Equality("status", "i.ISSUESTATUS", sanitize_sql_value(f.status))>>
        ELSE <<>>)
    \o (IF TruthyText(f.priority)
        THEN <<Equality("priority", "i.PRIORITY", sanitize_sql_value(f.priority))>>
        ELSE <<>>)

\* (LOWER(a) LIKE '%term%' OR LOWER(b) LIKE '%term%')
EitherLike(a, b, term) == [either |-> <<a, b>>, like |-> term]

\* the fragment of search_text (tools.py 120-122)
SearchCondition(f) ==
    IF TruthyText(f.search_text)
    THEN <<[kind |-> "search",
            test |-> EitherLike("i.SUMMARY", "i.DESCRIPTION",
                         sanitize_sql_value(Text(Lower(f.search_text.v))))]>>
    ELSE <<>>

\* positions of the commas
CommaAt(s) == {i \in 1..Len(s) : s[i] = ","}

\* str.split(",")
RECURSIVE SplitComma(_)
SplitComma(s) ==
    IF CommaAt(s) = {} THEN <<s>>
    ELSE LET i == Min(CommaAt(s))
         IN  <<SubSeq(s, 1, i - 1)>> \o SplitComma(SubSeq(s, i + 1, Len(s)))

\* [term.strip().lower() for term in ... if term.strip()]
RECURSIVE StripLower(_)
StripLower(parts) ==
    IF parts = <<>> THEN <<>>
    ELSE IF Strip(parts[1]) # <<>>
         THEN <<Lower(Strip(parts[1]))>> \o StripLower(Tail(parts))
         ELSE StripLower(Tail(parts))

\* component_terms (tools.py 126-128)
ComponentTerms(components) == StripLower(SplitComma(components))

\* per_term_conditions (tools.py 130-135)
PerTermConditions(component_terms) ==
    [i \in 1..Len(component_terms) |->
        EitherLike("c.CNAME", "c.DESCRIPTION",
                   sanitize_sql_value(Text(component_terms[i])))]

\* ComponentsCondition without the test of component_terms
ComponentsConditionAlways(f) ==
    IF TruthyText(f.components)
    THEN <<[kind |-> "components",
            any_of |-> PerTermConditions(ComponentTerms(f.components.v))]>>
    ELSE <<>>

\* the fragment of components: the OR of the per-term tests (tools.py 124-137)
ComponentsCondition(f) ==
    IF TruthyText(f.components) /\ ComponentTerms(f.components.v) # <<>>
    THEN <<[kind |-> "components",
            any_of |-> PerTermConditions(ComponentTerms(f.components.v))]>>
    ELSE <<>>

\* sql_conditions when the query is built (tools.py 106-160)
SqlConditions(f) ==
    ScalarConditions(f) \o SearchCondition(f) \o ComponentsCondition(f)
    \o BuildConditions(f)

Keyword(word) == [keyword |-> word]

\* " AND ".join(sql_conditions)
RECURSIVE JoinAnd(_)
JoinAnd(conditions) ==
    IF Len(conditions) <= 1 THEN conditions
    ELSE <<conditions[1], Keyword("AND")>> \o JoinAnd(Tail(conditions))

\* where_clause (tools.py 162-164): the words of the clause, none when there
\* is no condition
WhereClause(conditions) ==
    IF conditions = <<>> THEN <<>>
    ELSE <<Keyword("WHERE")>> \o JoinAnd(conditions)

----------------------------------------------------------------------------
(* Merge of the lookups onto the records of list_jira_issues (tools.py 267-271) *)

\* EnrichList that gives every record a comments list as well
RECURSIVE EnrichListWithComments(_, _, _)
EnrichListWithComments(entries, labels_data, links_data) ==
    IF entries = <<>> THEN <<>>
    ELSE LET issue == entries[1]
             issue_id == PyStr(issue.id)
         IN  <<[id |-> issue.id, key |-> issue.key,
                component |-> issue.component,
                component_name |-> issue.component_name,
                labels |-> GetOr(labels_data, issue_id, <<>>),
                comments |-> <<>>,
                links |-> GetOr(links_data, issue_id, <<>>)]>>
             \o EnrichListWithComments(Tail(entries), labels_data, links_data)

RECURSIVE EnrichList(_, _, _)
EnrichList(entries, labels_data, links_data) ==
    IF entries = <<>> THEN <<>>
    ELSE LET issue == entries[1]
             issue_id == PyStr(issue.id)
         IN  <<[id |-> issue.id, key |-> issue.key,
                component |-> issue.component,
                component_name |-> issue.component_name,
                labels |-> GetOr(labels_data, issue_id, <<>>),
                links |-> GetOr(links_data, issue_id, <<>>)]>>
             \o EnrichList(Tail(entries), labels_data, links_data)

ListResult(entries) == [issues |-> entries, total_returned |-> Len(entries)]

ListError(msg) == [error |-> msg, issues |-> <<>>]

ErrorResult(msg) == [error |-> msg]

\* Failure that answers list_jira_issues with an empty list of issues
FailureEmptyList(name, msg) ==
    IF name = "list" THEN ListResult(<<>>) ELSE ErrorResult(msg)

\* the error result of a handler: list_jira_issues adds an empty issues list
Failure(name, msg) == IF name = "list" THEN ListError(msg) ELSE ErrorResult(msg)

----------------------------------------------------------------------------
(* get_jira_issue_details: the loop over rows (tools.py 372-419) *)

DetailColumns == <<"ID", "ISSUE_KEY", "COMPONENT_NAME">>

\* index of the entry of found_issues with the given key (0 when absent)
IndexOfKey(entries, key) ==
    IF \E i \in 1..Len(entries) : entries[i].key = key
    THEN CHOOSE i \in 1..Len(entries) : entries[i].key = key
    ELSE 0

\* found_issues[issue_key] = issue: a new key is appended, and a key that is
\* present keeps its place and takes the new value
DictSet(entries, issue) ==
    IF IndexOfKey(entries, issue.key) = 0
    THEN Append(entries, issue)
    ELSE [entries EXCEPT ![IndexOfKey(entries, issue.key)] = issue]

DetailRowStep(acc, row) ==
    LET row_dict == format_snowflake_row(row, DetailColumns)
        key == Get(row_dict, "ISSUE_KEY")
        issue == [id |-> Get(row_dict, "ID"), key |-> key,
                  component_name |-> Get(row_dict, "COMPONENT_NAME")]
    IN  IF Truthy(key)
        THEN [found_issues |-> DictSet(acc.found_issues, issue),
              found_keys |-> acc.found_keys \cup {key},
              issue_ids |-> IF Truthy(Get(row_dict, "ID"))
                            THEN Append(acc.issue_ids, PyStr(Get(row_dict, "ID")))
                            ELSE acc.issue_ids]
        ELSE acc

RECURSIVE AggregateDetailRowsFrom(_, _)
AggregateDetailRowsFrom(acc, rs) ==
    IF rs = <<>> THEN acc
    ELSE AggregateDetailRowsFrom(DetailRowStep(acc, rs[1]), Tail(rs))

AggregateDetailRows(rs) ==
    AggregateDetailRowsFrom(
        [found_issues |-> <<>>, found_keys |-> {}, issue_ids |-> <<>>], rs)

\* NotFoundKeys that stops at the first key that was found
RECURSIVE NotFoundKeysUntilFound(_, _)
NotFoundKeysUntilFound(keys, found_keys) ==
    IF keys = <<>> THEN <<>>
    ELSE IF keys[1] \notin found_keys
         THEN <<keys[1]>> \o NotFoundKeysUntilFound(Tail(keys), found_keys)
         ELSE <<>>

\* [key for key in issue_keys if key not in found_keys]
RECURSIVE NotFoundKeys(_, _)
NotFoundKeys(keys, found_keys) ==
    IF keys = <<>> THEN <<>>
    ELSE IF keys[1] \notin found_keys
         THEN <<keys[1]>> \o NotFoundKeys(Tail(keys), found_keys)
         ELSE NotFoundKeys(Tail(keys), found_keys)

\* EnrichDetails that fills comments from the labels mapping
RECURSIVE EnrichDetailsCommentsFromLabels(_, _, _, _)
EnrichDetailsCommentsFromLabels(entries, labels_data, comments_data, links_data) ==
    IF entries = <<>> THEN <<>>
    ELSE LET issue == entries[1]
             issue_id == PyStr(issue.id)
         IN  <<[id |-> issue.id, key |-> issue.key,
                component_name |-> issue.component_name,
                labels |-> GetOr(labels_data, issue_id, <<>>),
                comments |-> GetOr(labels_data, issue_id, <<>>),
                links |-> GetOr(links_data, issue_id, <<>>)]>>
             \o EnrichDetailsCommentsFromLabels(Tail(entries), labels_data,
                                                comments_data, links_data)

\* the merge of the three lookups (tools.py 429-433)
RECURSIVE EnrichDetails(_, _, _, _)
EnrichDetails(entries, labels_data, comments_data, links_data) ==
    IF entries = <<>> THEN <<>>
    ELSE LET issue == entries[1]
             issue_id == PyStr(issue.id)
         IN  <<[id |-> issue.id, key |-> issue.key,
                component_name |-> issue.component_name,
                labels |-> GetOr(labels_data, issue_id, <<>>),
                comments |-> GetOr(comments_data, issue_id, <<>>),
                links |-> GetOr(links_data, issue_id, <<>>)]>>
             \o EnrichDetails(Tail(entries), labels_data, comments_data, links_data)

DetailsResult(found_issues, not_found_keys, keys) ==
    [found_issues |-> found_issues,
     not_found |-> not_found_keys,
     total_found |-> Len(found_issues),
     total_requested |-> Len(keys)]

ZeroResult ==
    [found_issues |-> <<>>, not_found |-> <<>>,
     total_found |-> 0, total_requested |-> 0]

----------------------------------------------------------------------------
(* get_jira_project_summary: the loop over rows (tools.py 488-516) *)

SummaryColumns == <<"PROJECT", "ISSUESTATUS", "PRIORITY", "COUNT">>

Unknown == StrCell("Unknown")

\* whether int(x) raises
IntRaises(x) == x.t = "str" /\ ~IsDecimal(x.v)

\* int(x) of an int or of a string of digits
ParseInt(x) == CHOOSE n \in 0..9 : ToString(n) = x.v

\* int(row_dict.get("COUNT", 0)) if row_dict.get("COUNT") is not None else 0
RowCount(row_dict) ==
    IF Get(row_dict, "COUNT").t = "null" THEN 0
    ELSE ParseInt(Get(row_dict, "COUNT"))

\* counters.get(k, 0) + count
\* Bump that assigns where the code adds
BumpOverwrites(counters, k, count) ==
    IF k \in DOMAIN counters
    THEN [counters EXCEPT ![k] = count]
    ELSE counters @@ (k :> count)

Bump(counters, k, count) ==
    IF k \in DOMAIN counters
    THEN [counters EXCEPT ![k] = @ + count]
    ELSE counters @@ (k :> count)

NewProject == [total_issues |-> 0, statuses |-> EmptyDict, priorities |-> EmptyDict]

SummaryRowStep(acc, row) ==
    LET row_dict == format_snowflake_row(row, SummaryColumns)
        project == GetOr(row_dict, "PROJECT", Unknown)
        status == GetOr(row_dict, "ISSUESTATUS", Unknown)
        priority == GetOr(row_dict, "PRIORITY", Unknown)
        count == RowCount(row_dict)
        stats == IF project \in DOMAIN acc.project_stats
                 THEN acc.project_stats
                 ELSE acc.project_stats @@ (project :> NewProject)
    IN  [project_stats |->
            [stats EXCEPT ![project] =
                [total_issues |-> @.total_issues + count,
                 statuses |-> Bump(@.statuses, status, count),
                 priorities |-> Bump(@.priorities, priority, count)]],
         total_issues |-> acc.total_issues + count]

RECURSIVE AggregateSummaryFrom(_, _)
AggregateSummaryFrom(acc, rs) ==
    IF rs = <<>> THEN acc
    ELSE AggregateSummaryFrom(SummaryRowStep(acc, rs[1]), Tail(rs))

\* whether the loop raises (int() of a COUNT that is not a number)
SummaryRaises(rs) ==
    \E i \in 1..Len(rs) :
        IntRaises(Get(format_snowflake_row(rs[i], SummaryColumns), "COUNT"))

SummaryResult(rs) ==
    LET acc == AggregateSummaryFrom(
                   [project_stats |-> EmptyDict, total_issues |-> 0], rs)
    IN  [total_issues |-> acc.total_issues,
         total_projects |-> Cardinality(DOMAIN acc.project_stats),
         projects |-> acc.project_stats]

----------------------------------------------------------------------------
(* get_jira_issue_links (tools.py 563-577) *)

\* LinksResult with len(links_data) for total_links
LinksResultCountsIds(key, issue_id, links_data) ==
    LET issue_links == GetOr(links_data, issue_id, <<>>)
    IN  [issue_key |-> key, issue_id |-> issue_id,
         links |-> issue_links, total_links |-> Cardinality(DOMAIN links_data)]

LinksResult(key, issue_id, links_data) ==
    LET issue_links == GetOr(links_data, issue_id, <<>>)
    IN  [issue_key |-> key, issue_id |-> issue_id,
         links |-> issue_links, total_links |-> Len(issue_links)]

----------------------------------------------------------------------------
(* The warehouse and the query layer: what a query can be answered with *)

IssueIds == {IntCell(1), IntCell(2), StrCell("1")}

\* ISSUE_KEY is a column of the issue's own row: one key per id
KeyOf(id) == StrCell("X-" \o PyStr(id))

\* COMPONENT_NAMES values: absent, "A||B", "B||C"
ListComponentNames ==
    {NoneText, Text(<<"A", "|", "|", "B">>), Text(<<"B", "|", "|", "C">>)}

\* rows of the list query: well-formed rows, a row with a null id and a row
\* whose width is not the layout's
ListRows ==
    {<<id, KeyOf(id), c>> : id \in IssueIds, c \in ListComponentNames}
    \cup {<<None, None, NoneText>>, <<IntCell(1)>>}

\* rows of the aggregation specification, which add the COMPONENT_NAMES
\* values "", " A || B " and "A||||B||"
AggRows ==
    {<<IntCell(1), KeyOf(IntCell(1)), c>> :
        c \in ListComponentNames
              \cup {Text(<<" ", "A", " ", "|", "|", " ", "B", " ">>),
                    Text(<<"A", "|", "|", "|", "|", "B", "|", "|">>)}}
    \cup {<<IntCell(2), KeyOf(IntCell(2)), c>> :
              c \in {Text(<<>>), Text(<<"B", "|", "|", "C">>)}}
    \cup {<<StrCell("1"), KeyOf(StrCell("1")), Text(<<"B", "|", "|", "C">>)>>,
          <<None, None, NoneText>>, <<IntCell(1)>>}

\* the key lists get_jira_issue_details is called with
KeyLists ==
    {<<>>, <<StrCell("X-1")>>, <<StrCell("X-3")>>,
     <<StrCell("X-1"), StrCell("X-2")>>, <<StrCell("X-2"), StrCell("X-1")>>,
     <<StrCell("X-1"), StrCell("X-3")>>, <<StrCell("X-1"), StrCell("X-1")>>}

\* rows of the details query for the requested keys: one row per component
\* of a matching issue, a row of an issue (X-3) whose id is null and a row
\* whose width is not the layout's
DetailRows(keys) ==
    {<<id, KeyOf(id), c>> :
        id \in {i \in {IntCell(1), IntCell(2)} : KeyOf(i) \in Range(keys)},
        c \in {StrCell("A"), StrCell("B")}}
    \cup {<<None, k, None>> : k \in {StrCell("X-3")} \cap Range(keys)}
    \cup {<<IntCell(1)>>}

\* COUNT arrives as a number or as its decimal string, or is null
SummaryCounts == {IntCell(2), IntCell(3), StrCell("3"), None}

StatusPriority ==
    {<<StrCell("Open"), StrCell("High")>>, <<StrCell("Closed"), StrCell("Low")>>,
     <<StrCell("Open"), StrCell("Low")>>}

\* rows of the summary query: well-formed rows, a row whose COUNT is not a
\* number and a row whose width is not the layout's
SummaryRows ==
    {<<p, sq[1], sq[2], c>> :
        p \in {StrCell("P1"), StrCell("P2")}, sq \in StatusPriority,
        c \in SummaryCounts}
    \cup {<<StrCell("P1"), StrCell("Open"), StrCell("High"), StrCell("many")>>,
          <<StrCell("P1")>>}

\* rows of the key-to-id point lookup
IdRows == {<<id>> : id \in IssueIds \cup {None}}

Raising == [raised |-> TRUE]
NoData == [message |-> "Statement executed successfully."]
AuthRejected == [auth_error |-> TRUE]

\* what the query layer can answer a query with: no response (transport
\* failure, timeout, unparseable body), an exception, a rejected credential,
\* a response without data, and rows in either response format
Responses(rowSeqs) ==
    {NoResponse, Raising, NoData, AuthRejected, [resultSet |-> NoData]}
    \cup {[data |-> rs] : rs \in rowSeqs}
    \cup {[resultSet |-> [data |-> rs]] : rs \in rowSeqs}

\* the relation tables of the warehouse
Table(r) ==
    CASE r = "labels" ->
            <<<<StrCell("1"), StrCell("bug")>>, <<StrCell("1"), StrCell("ui")>>>>
      [] r = "comments" ->
            <<<<StrCell("1"), StrCell("c1")>>, <<IntCell(2), StrCell("c2")>>>>
      [] r = "links" ->
            <<<<IntCell(1), StrCell("l1")>>, <<IntCell(1), StrCell("l2")>>,
              <<StrCell("2"), StrCell("l3")>>>>

\* WHERE ISSUE IN (ids)
RECURSIVE SelectIssues(_, _)
SelectIssues(table, ids) ==
    IF table = <<>> THEN <<>>
    ELSE IF PyStr(table[1][1]) \in Range(ids)
         THEN <<table[1]>> \o SelectIssues(Tail(table), ids)
         ELSE SelectIssues(Tail(table), ids)

LookupResponses(r, ids) ==
    {NoResponse, Raising, [data |-> SelectIssues(Table(r), SanitizedIds(ids))]}

----------------------------------------------------------------------------
(* The state machine: one invocation at a time *)

NoResult == [pending |-> TRUE]

Init ==
    /\ authMethod \in {"token", "private_key"}
    /\ op = "none"
    /\ pc = "idle"
    /\ snowflake_token = None
    /\ test_token = None
    /\ filters = NoFilters
    /\ sql_conditions = <<>>
    /\ issue_keys = <<>>
    /\ issue_key = None
    /\ rows = <<>>
    /\ queryFailed = FALSE
    /\ queryRaised = FALSE
    /\ issues = <<>>
    /\ issue_ids = <<>>
    /\ not_found = <<>>
    /\ tasks = NoTasks
    /\ queries = <<>>
    /\ result = NoResult

\* the top of every handler: the token is fetched and checked, and with
\* private key authentication a JWT is generated; the handler returns the
\* error result when the check fails and otherwise issues its primary query
Authenticate(name, token, jwt) ==
    /\ pc = "idle"
    /\ op' = name
    /\ snowflake_token' = token
    /\ test_token' = IF authMethod = "private_key" THEN jwt ELSE None
    /\ IF AuthCheck(authMethod, token, jwt) # ""
       THEN /\ pc' = "done"
            /\ result' = Failure(name, AuthCheck(authMethod, token, jwt))
            /\ queries' = <<>>
       ELSE /\ pc' = "primary"
            /\ result' = NoResult
            /\ queries' = <<"primary">>

list_jira_issues(f, token, jwt) ==
    /\ Authenticate("list", token, jwt)
    /\ filters' = f
    /\ sql_conditions' =
           IF AuthCheck(authMethod, token, jwt) # "" THEN <<>> ELSE SqlConditions(f)
    /\ UNCHANGED <<authMethod, issue_keys, issue_key, rows, queryFailed, queryRaised, issues,
                   issue_ids, not_found, tasks>>

\* get_jira_issue_details without the early return for an empty key list
get_jira_issue_details_no_empty_test(keys, token, jwt) ==
    /\ pc = "idle"
    /\ op' = "details"
    /\ snowflake_token' = token
    /\ test_token' = IF authMethod = "private_key" THEN jwt ELSE None
    /\ issue_keys' = keys
    /\ IF AuthCheck(authMethod, token, jwt) # ""
       THEN /\ pc' = "done"
            /\ result' = ErrorResult(AuthCheck(authMethod, token, jwt))
            /\ queries' = <<>>
       ELSE /\ pc' = "primary"
            /\ result' = NoResult
            /\ queries' = <<"primary">>
    /\ UNCHANGED <<authMethod, filters, sql_conditions, issue_key, rows, queryFailed,
                   queryRaised, issues,
                   issue_ids, not_found, tasks>>

get_jira_issue_details(keys, token, jwt) ==
    /\ pc = "idle"
    /\ op' = "details"
    /\ snowflake_token' = token
    /\ test_token' = IF authMethod = "private_key" THEN jwt ELSE None
    /\ issue_keys' = keys
    /\ IF AuthCheck(authMethod, token, jwt) # ""
       THEN /\ pc' = "done"
            /\ result' = ErrorResult(AuthCheck(authMethod, token, jwt))
            /\ queries' = <<>>
       ELSE IF keys = <<>>
       THEN /\ pc' = "done"
            /\ result' = ZeroResult
            /\ queries' = <<>>
       ELSE /\ pc' = "primary"
            /\ result' = NoResult
            /\ queries' = <<"primary">>
    /\ UNCHANGED <<authMethod, filters, sql_conditions, issue_key, rows, queryFailed,
                   queryRaised, issues,
                   issue_ids, not_found, tasks>>

get_jira_project_summary(token, jwt) ==
    /\ Authenticate("summary", token, jwt)
    /\ UNCHANGED <<authMethod, filters, sql_conditions, issue_keys, issue_key, rows,
                   queryFailed, queryRaised, issues, issue_ids, not_found, tasks>>

get_jira_issue_links(key, token, jwt) ==
    /\ Authenticate("links", token, jwt)
    /\ issue_key' = key
    /\ UNCHANGED <<authMethod, filters, sql_conditions, issue_keys, rows, queryFailed, queryRaised,
                   issues, issue_ids, not_found, tasks>>

\* the handler ends: its except clauses turn a rejected credential into the
\* authentication error result
Fail(msg) ==
    /\ pc' = "done"
    /\ result' = Failure(op, msg)

AuthFailed == "Authentication failed: Invalid or expired token"

\* list_jira_issues resumes with the rows of its query (tools.py 196-264)
ListRowsReturn(response) ==
    /\ pc = "primary" /\ op = "list"
    /\ queryFailed' = ~QuerySucceeded(response)
    /\ queryRaised' = (response = AuthRejected)
    /\ filters' = NoFilters
    /\ sql_conditions' = <<>>
    /\ IF response = AuthRejected
       THEN /\ Fail(AuthFailed)
            /\ UNCHANGED <<rows, issues, issue_ids, tasks, queries>>
       ELSE LET rs == execute_snowflake_query(response)
                acc == AggregateListRows(rs)
            IN  /\ rows' = rs
                /\ issues' = acc.issues
                /\ issue_ids' = acc.issue_ids
                /\ tasks' = StartEnrichment(acc.issue_ids)
                /\ queries' = queries \o StartedQueries(acc.issue_ids,
                                             <<"labels", "comments", "links">>)
                /\ pc' = "enrich"
                /\ result' = NoResult
    /\ UNCHANGED <<authMethod, op, snowflake_token, test_token, issue_keys,
                   issue_key, not_found>>

\* list_jira_issues resumes when the three lookups have settled (tools.py 266-291)
ListEnrichmentDone ==
    /\ pc = "enrich" /\ op = "list"
    /\ AllSettled(tasks)
    /\ issues' = EnrichList(issues, tasks["labels"].data, tasks["links"].data)
    /\ result' = ListResult(issues')
    /\ pc' = "done"
    /\ UNCHANGED <<authMethod, op, snowflake_token, test_token, filters, sql_conditions,
                   issue_keys, issue_key, rows, queryFailed, queryRaised, issue_ids, not_found,
                   tasks, queries>>

\* get_jira_issue_details resumes with the rows of its query (tools.py 360-426)
DetailsRowsReturn(response) ==
    /\ pc = "primary" /\ op = "details"
    /\ queryFailed' = ~QuerySucceeded(response)
    /\ queryRaised' = (response = AuthRejected)
    /\ IF response = AuthRejected
       THEN /\ Fail(AuthFailed)
            /\ UNCHANGED <<rows, issues, issue_ids, not_found, tasks, queries>>
       ELSE LET rs == execute_snowflake_query(response)
                acc == AggregateDetailRows(rs)
                not_found_keys == NotFoundKeys(issue_keys, acc.found_keys)
            IN  /\ rows' = rs
                /\ issues' = acc.found_issues
                /\ issue_ids' = acc.issue_ids
                /\ not_found' = not_found_keys
                /\ IF acc.issue_ids # <<>>
                   THEN /\ tasks' = StartEnrichment(acc.issue_ids)
                        /\ queries' = queries \o StartedQueries(acc.issue_ids,
                                                  <<"labels", "comments", "links">>)
                        /\ pc' = "enrich"
                        /\ result' = NoResult
                   ELSE /\ pc' = "done"
                        /\ result' = DetailsResult(acc.found_issues, not_found_keys,
                                                   issue_keys)
                        /\ UNCHANGED <<tasks, queries>>
    /\ UNCHANGED <<authMethod, op, snowflake_token, test_token, filters, sql_conditions,
                   issue_keys, issue_key>>

\* get_jira_issue_details resumes when the three lookups have settled
\* (tools.py 428-440)
DetailsEnrichmentDone ==
    /\ pc = "enrich" /\ op = "details"
    /\ AllSettled(tasks)
    /\ issues' = EnrichDetails(issues, tasks["labels"].data, tasks["comments"].data,
                               tasks["links"].data)
    /\ result' = DetailsResult(issues', not_found, issue_keys)
    /\ pc' = "done"
    /\ UNCHANGED <<authMethod, op, snowflake_token, test_token, filters, sql_conditions,
                   issue_keys, issue_key, rows, queryFailed, queryRaised, issue_ids, not_found,
                   tasks, queries>>

\* get_jira_project_summary resumes with the rows of its query (tools.py 485-522)
SummaryRowsReturn(response) ==
    /\ pc = "primary" /\ op = "summary"
    /\ queryFailed' = ~QuerySucceeded(response)
    /\ queryRaised' = (response = AuthRejected)
    /\ pc' = "done"
    /\ IF response = AuthRejected
       THEN /\ result' = ErrorResult(AuthFailed)
            /\ UNCHANGED rows
       ELSE LET rs == execute_snowflake_query(response)
            IN  /\ rows' = rs
                /\ result' = IF SummaryRaises(rs)
                             THEN ErrorResult("Error generating project summary from Snowflake")
                             ELSE SummaryResult(rs)
    /\ UNCHANGED <<authMethod, op, snowflake_token, test_token, filters, sql_conditions,
                   issue_keys, issue_key, issues, issue_ids, not_found, tasks,
                   queries>>

\* get_jira_issue_links resumes with the rows of the key-to-id lookup
\* (tools.py 561-569)
LinksRowsReturn(response) ==
    /\ pc = "primary" /\ op = "links"
    /\ queryFailed' = ~QuerySucceeded(response)
    /\ queryRaised' = (response = AuthRejected)
    /\ IF response = AuthRejected
       THEN /\ Fail(AuthFailed)
            /\ UNCHANGED <<rows, issue_ids, tasks, queries>>
       ELSE LET rs == execute_snowflake_query(response)
            IN  /\ rows' = rs
                /\ IF rs = <<>>
                   THEN /\ Fail("Issue with key not found")
                        /\ UNCHANGED <<issue_ids, tasks, queries>>
                   ELSE /\ issue_ids' = <<PyStr(rs[1][1])>>
                        /\ tasks' = [NoTasks EXCEPT !["links"] = StartedTask(issue_ids')]
                        /\ queries' = queries \o StartedQueries(issue_ids', <<"links">>)
                        /\ pc' = "enrich"
                        /\ result' = NoResult
    /\ UNCHANGED <<authMethod, op, snowflake_token, test_token, filters, sql_conditions,
                   issue_keys, issue_key, issues, not_found>>

\* get_jira_issue_links resumes with the mapping of the link lookup
\* (tools.py 570-577)
LinksLookupDone ==
    /\ pc = "enrich" /\ op = "links"
    /\ AllSettled(tasks)
    /\ result' = LinksResult(issue_key, issue_ids[1], tasks["links"].data)
    /\ pc' = "done"
    /\ UNCHANGED <<authMethod, op, snowflake_token, test_token, filters, sql_conditions,
                   issue_keys, issue_key, rows, queryFailed, queryRaised, issues, issue_ids,
                   not_found, tasks, queries>>

\* a running lookup settles: its query is answered or fails
LookupSettles(r, response) ==
    /\ pc = "enrich"
    /\ tasks[r].status = "running"
    /\ tasks' = [tasks EXCEPT ![r] =
                    [status |-> IF QuerySucceeded(response) THEN "ok" ELSE "failed",
                     data |-> LookupResult(r, issue_ids, response)]]
    /\ UNCHANGED <<authMethod, op, pc, snowflake_token, test_token, filters, sql_conditions,
                   issue_keys, issue_key, rows, queryFailed, queryRaised, issues, issue_ids,
                   not_found, queries, result>>

\* the result is handed to the caller; nothing survives the invocation
Return ==
    /\ pc = "done"
    /\ op' = "none"
    /\ pc' = "idle"
    /\ snowflake_token' = None
    /\ test_token' = None
    /\ filters' = NoFilters
    /\ sql_conditions' = <<>>
    /\ issue_keys' = <<>>
    /\ issue_key' = None
    /\ rows' = <<>>
    /\ queryFailed' = FALSE
    /\ queryRaised' = FALSE
    /\ issues' = <<>>
    /\ issue_ids' = <<>>
    /\ not_found' = <<>>
    /\ tasks' = NoTasks
    /\ queries' = <<>>
    /\ result' = NoResult
    /\ UNCHANGED authMethod

\* the token the handler gets from get_snowflake_token
Tokens ==
    {get_snowflake_token(stdio, authMethod, config_token, header) :
        stdio \in BOOLEAN, config_token \in TokenValues, header \in HeaderValues}

\* the date arguments the state machine calls list_jira_issues with
FilterSamples ==
    {NoFilters,
     [NoFilters EXCEPT !.timeframe = 2],
     [NoFilters EXCEPT !.created_days = 1, !.timeframe = 2],
     [NoFilters EXCEPT !.updated_days = 2, !.resolved_days = 1]}

\* the caller invokes a tool
CallList ==
    /\ pc = "idle"
    /\ \E f \in FilterSamples, token \in Tokens, jwt \in JwtValues :
           list_jira_issues(f, token, jwt)

CallDetails ==
    /\ pc = "idle"
    /\ \E keys \in KeyLists, token \in Tokens, jwt \in JwtValues :
           get_jira_issue_details(keys, token, jwt)

CallSummary ==
    /\ pc = "idle"
    /\ \E token \in Tokens, jwt \in JwtValues :
           get_jira_project_summary(token, jwt)

CallLinks ==
    /\ pc = "idle"
    /\ \E key \in {StrCell("X-1"), StrCell("X-3")}, token \in Tokens, jwt \in JwtValues :
           get_jira_issue_links(key, token, jwt)

\* the query layer answers the primary query of the running tool
ListAnswered ==
    /\ pc = "primary" /\ op = "list"
    /\ \E response \in Responses(SeqsUpTo(ListRows, MaxRows)) :
           ListRowsReturn(response)

DetailsAnswered ==
    /\ pc = "primary" /\ op = "details"
    /\ \E response \in Responses(SeqsUpTo(DetailRows(issue_keys), MaxRows)) :
           DetailsRowsReturn(response)

SummaryAnswered ==
    /\ pc = "primary" /\ op = "summary"
    /\ \E response \in Responses(SeqsUpTo(SummaryRows, MaxRows)) :
           SummaryRowsReturn(response)

LinksAnswered ==
    /\ pc = "primary" /\ op = "links"
    /\ \E response \in Responses(SeqsUpTo(IdRows, MaxRows)) :
           LinksRowsReturn(response)

\* the query layer answers the query of a running lookup
LookupAnswered ==
    /\ pc = "enrich"
    /\ \E r \in Relations : \E response \in LookupResponses(r, issue_ids) :
           LookupSettles(r, response)

Next ==
    \/ CallList
    \/ CallDetails
    \/ CallSummary
    \/ CallLinks
    \/ ListAnswered
    \/ DetailsAnswered
    \/ SummaryAnswered
    \/ LinksAnswered
    \/ LookupAnswered
    \/ ListEnrichmentDone
    \/ DetailsEnrichmentDone
    \/ LinksLookupDone
    \/ Return

Spec == Init /\ [][Next]_vars

----------------------------------------------------------------------------
(* The predicate builder over every combination of the date arguments *)

CallListAnyFilters ==
    /\ pc = "idle"
    /\ \E f \in Filters, token \in Tokens, jwt \in JwtValues :
           list_jira_issues(f, token, jwt)

NextFilters ==
    \/ CallListAnyFilters
    \/ Return

SpecFilters == Init /\ [][NextFilters]_vars

----------------------------------------------------------------------------
(* The row aggregation of list_jira_issues over longer and odder row        *)
(* sequences: a call of list_jira_issues whose query is in flight           *)

InitAggregate ==
    /\ authMethod = "token"
    /\ op = "list"
    /\ pc = "primary"
    /\ snowflake_token = StrCell("tok")
    /\ test_token = None
    /\ filters = NoFilters
    /\ sql_conditions = <<>>
    /\ issue_keys = <<>>
    /\ issue_key = None
    /\ rows = <<>>
    /\ queryFailed = FALSE
    /\ queryRaised = FALSE
    /\ issues = <<>>
    /\ issue_ids = <<>>
    /\ not_found = <<>>
    /\ tasks = NoTasks
    /\ queries = <<"primary">>
    /\ result = NoResult

ListAnsweredAnyRows ==
    /\ pc = "primary"
    /\ \E rs \in SeqsUpTo(AggRows, MaxAggRows) : ListRowsReturn([data |-> rs])

LookupFound ==
    /\ pc = "enrich"
    /\ \E r \in Relations :
           LookupSettles(r, [data |-> SelectIssues(Table(r), SanitizedIds(issue_ids))])

NextAggregate ==
    \/ ListAnsweredAnyRows
    \/ LookupFound
    \/ ListEnrichmentDone

SpecAggregate == InitAggregate /\ [][NextAggregate]_vars

----------------------------------------------------------------------------
(* sanitize_sql_value, applied to the key of get_jira_issue_links when the   *)
(* point lookup is built. Strings are sequences of characters here.          *)

Alphabet == {Quote, "O", "\\"}

\* the values handed to sanitize_sql_value: every string over the alphabet up
\* to the length bound, the string O'Brien, a null and numbers
SanitizeInputs ==
    {Text(chars) : chars \in SeqsUpTo(Alphabet, MaxLen)}
    \cup {Text(<<"O", Quote, "B", "r", "i", "e", "n">>), None, IntCell(0), IntCell(7)}

InitSanitize ==
    /\ authMethod = "token"
    /\ op = "links"
    /\ pc = "idle"
    /\ snowflake_token = StrCell("tok")
    /\ test_token = None
    /\ filters = NoFilters
    /\ sql_conditions = <<>>
    /\ issue_keys = <<>>
    /\ issue_key \in SanitizeInputs
    /\ rows = <<>>
    /\ queryFailed = FALSE
    /\ queryRaised = FALSE
    /\ issues = <<>>
    /\ issue_ids = <<>>
    /\ not_found = <<>>
    /\ tasks = NoTasks
    /\ queries = <<>>
    /\ result = NoResult

\* WHERE ISSUE_KEY = '{sanitize_sql_value(issue_key)}' (tools.py 557)
SanitizeIssueKey ==
    /\ pc = "idle" /\ op = "links"
    /\ sql_conditions' = <<[kind |-> "issue_key", value |-> sanitize_sql_value(issue_key)]>>
    /\ queries' = <<"primary">>
    /\ pc' = "primary"
    /\ UNCHANGED <<authMethod, op, snowflake_token, test_token, filters, issue_keys,
                   issue_key, rows, queryFailed, queryRaised, issues, issue_ids,
                   not_found, tasks, result>>

NextSanitize == SanitizeIssueKey

SpecSanitize == InitSanitize /\ [][NextSanitize]_vars

----------------------------------------------------------------------------
(* get_issue_labels on its own, called with any list of ids *)

\* str(issue_id) of the ids of a call: numbers, a letter, the empty string,
\* a null, an attempt at injection and a superscript digit
IdSamples == {"1", "2", "x", "", "None", "1) OR (1=1", SuperscriptTwo}

InitLookup ==
    /\ authMethod = "token"
    /\ op = "lookup"
    /\ pc = "idle"
    /\ snowflake_token = StrCell("tok")
    /\ test_token = None
    /\ filters = NoFilters
    /\ sql_conditions = <<>>
    /\ issue_keys = <<>>
    /\ issue_key = None
    /\ rows = <<>>
    /\ queryFailed = FALSE
    /\ queryRaised = FALSE
    /\ issues = <<>>
    /\ issue_ids \in SeqsUpTo(IdSamples, MaxIds)
    /\ not_found = <<>>
    /\ tasks = NoTasks
    /\ queries = <<>>
    /\ result = NoResult

\* get_issue_labels up to its query: the ids are validated and, when one is
\* left, the query with the IN-clause is issued (database.py 135-160)
LabelsLookupStarts ==
    /\ pc = "idle" /\ op = "lookup"
    /\ tasks' = [NoTasks EXCEPT !["labels"] = StartedTask(issue_ids)]
    /\ queries' = StartedQueries(issue_ids, <<"labels">>)
    /\ sql_conditions' = IF LookupQueries(issue_ids)
                         THEN <<[kind |-> "issue_in", ids |-> SanitizedIds(issue_ids)]>>
                         ELSE <<>>
    /\ pc' = "enrich"
    /\ UNCHANGED <<authMethod, op, snowflake_token, test_token, filters, issue_keys,
                   issue_key, rows, queryFailed, queryRaised, issues, issue_ids,
                   not_found, result>>

\* the query of the lookup is answered or fails (database.py 160-174)
LabelsLookupAnswered ==
    /\ pc = "enrich" /\ op = "lookup"
    /\ \E response \in LookupResponses("labels", issue_ids) :
           LookupSettles("labels", response)

\* return labels_data (database.py 176)
LabelsLookupReturns ==
    /\ pc = "enrich" /\ op = "lookup"
    /\ tasks["labels"].status # "running"
    /\ result' = [labels_data |-> tasks["labels"].data]
    /\ pc' = "done"
    /\ UNCHANGED <<authMethod, op, snowflake_token, test_token, filters, sql_conditions,
                   issue_keys, issue_key, rows, queryFailed, queryRaised, issues,
                   issue_ids, not_found, tasks, queries>>

NextLookup ==
    \/ LabelsLookupStarts
    \/ LabelsLookupAnswered
    \/ LabelsLookupReturns

SpecLookup == InitLookup /\ [][NextLookup]_vars

----------------------------------------------------------------------------
(* The predicate builder over the scalar arguments and the components      *)
(* argument of list_jira_issues                                             *)

\* values of project: absent, empty, lower case, mixed case with a quote
ProjectValues ==
    {NoneText, Text(<<>>), Text(<<"a", "b">>), Text(<<"A", Quote, "b">>)}

\* values of issue_type, status and priority: absent, empty, a name
ScalarValues == {NoneText, Text(<<>>), Text(<<"B", "a">>)}

ComponentAlphabet == {",", " ", "a", "B"}

\* values of components: absent, every string over the alphabet up to the
\* length bound, and a longer one with a quote
ComponentValues ==
    {Text(chars) : chars \in SeqsUpTo(ComponentAlphabet, MaxTermChars)}
    \cup {NoneText, Text(<<" ", "a", Quote, " ", ",", ",", "B", " ">>)}

\* the calls: every combination of the scalar arguments, and every value of
\* components with and without a project
PredicateFilters ==
    {[NoFilters EXCEPT !.project = p, !.issue_type = i, !.status = s,
                       !.priority = y, !.search_text = x, !.components = c,
                       !.timeframe = t] :
        p \in ProjectValues, i \in ScalarValues, s \in ScalarValues,
        y \in ScalarValues, x \in {NoneText, Text(<<"A", "b">>)},
        c \in {NoneText, Text(<<"a">>)}, t \in 0..1}
    \cup {[NoFilters EXCEPT !.project = p, !.components = c] :
              p \in {NoneText, Text(<<"a", "b">>)}, c \in ComponentValues}

CallListAnyPredicates ==
    /\ pc = "idle"
    /\ \E f \in PredicateFilters, token \in Tokens, jwt \in JwtValues :
           list_jira_issues(f, token, jwt)

NextPredicates ==
    \/ CallListAnyPredicates
    \/ Return

SpecPredicates == Init /\ [][NextPredicates]_vars

----------------------------------------------------------------------------
(* Properties *)

Succeeded == pc = "done" /\ "error" \notin DOMAIN result

\* whether the credential of the configured authentication method is missing:
\* the token with token authentication, the generated JWT with private key
\* authentication
CredentialMissing ==
    \/ authMethod = "token" /\ snowflake_token \in {None, StrCell("")}
    \/ authMethod = "private_key" /\ test_token \in {None, StrCell(""), Raised}

AuthMessages ==
    {"No Snowflake token available", "JWT token error",
     "Failed to generate JWT token for private key authentication"}

\* the ids of rows of the given width, as strings; a null id is no id
RowIdStrings(rs, width) ==
    {PyStr(rs[i][1]) : i \in {j \in 1..Len(rs) : Len(rs[j]) = width /\ rs[j][1] # None}}

RecordsWithId(recs, idstr) ==
    {i \in 1..Len(recs) : recs[i].id # None /\ PyStr(recs[i].id) = idstr}

\* C1: in a result of list_jira_issues or get_jira_issue_details no two
\* records carry the same id, and the rows that share an id (for the details,
\* the rows with a key) are represented by exactly one record
C1_UniqueIds ==
    /\ (Succeeded /\ op = "list") =>
          /\ \A i, j \in 1..Len(result.issues) :
                 i # j => PyStr(result.issues[i].id) # PyStr(result.issues[j].id)
          /\ \A idstr \in RowIdStrings(rows, 3) :
                 Cardinality(RecordsWithId(result.issues, idstr)) = 1
    /\ (Succeeded /\ op = "details") =>
          /\ \A i, j \in 1..Len(result.found_issues) :
                 (i # j /\ result.found_issues[i].id # None)
                     => PyStr(result.found_issues[i].id) # PyStr(result.found_issues[j].id)
          /\ \A idstr \in RowIdStrings(rows, 3) :
                 Cardinality(RecordsWithId(result.found_issues, idstr)) = 1

\* two rows that share an id (one as a number, one as a string) gave one record
C1_Witness ==
    /\ Succeeded /\ op = "list"
    /\ Len(rows) = 2
    /\ Len(rows[1]) = 3 /\ Len(rows[2]) = 3
    /\ rows[1][1] = IntCell(1) /\ rows[2][1] = StrCell("1")
    /\ Len(result.issues) = 1

\* the keys that occur in the rows the details query returned
RowKeys ==
    {rows[i][2] : i \in {j \in 1..Len(rows) : Len(rows[j]) = 3 /\ rows[j][2] # None}}

\* C2: for a non-empty key list and a successful query, found_issues is keyed
\* by exactly the keys of the returned rows, not_found lists exactly the
\* requested keys that no row has, total_found is the number of entries of
\* found_issues and total_requested the number of requested keys
C2_FoundAndNotFound ==
    (Succeeded /\ op = "details" /\ issue_keys # <<>> /\ ~queryFailed) =>
        /\ {result.found_issues[i].key : i \in 1..Len(result.found_issues)} = RowKeys
        /\ Len(result.found_issues) = Cardinality(RowKeys)
        /\ result.not_found = SelectSeq(issue_keys, LAMBDA k : k \notin RowKeys)
        /\ result.total_found = Len(result.found_issues)
        /\ result.total_requested = Len(issue_keys)

\* X-1 and X-2 requested, only X-1 in the rows
C2_Witness ==
    /\ Succeeded /\ op = "details" /\ ~queryFailed
    /\ issue_keys = <<StrCell("X-1"), StrCell("X-2")>>
    /\ RowKeys = {StrCell("X-1")}
    /\ result.not_found = <<StrCell("X-2")>>
    /\ result.total_found = 1
    /\ result.total_requested = 2

\* C3 (as amended): with token authentication a null or empty token, and with
\* private key authentication a JWT that is not generated, make every tool
\* return an authentication error before any query is issued
C3_AuthBeforeQuery ==
    (op # "none" /\ CredentialMissing) =>
        /\ pc = "done"
        /\ "error" \in DOMAIN result
        /\ result.error \in AuthMessages
        /\ queries = <<>>
        /\ rows = <<>>

\* list_jira_issues was called with an empty token and returned the error
C3_Witness ==
    /\ op = "list" /\ authMethod = "token"
    /\ snowflake_token = StrCell("")
    /\ pc = "done"
    /\ result = [error |-> "No Snowflake token available", issues |-> <<>>]
    /\ queries = <<>>

\* C3 (as stated): whenever the token that get_snowflake_token returned is
\* null or empty, the tool returns an error and issues no query
C3_NullTokenNoQuery ==
    (op # "none" /\ snowflake_token \in {None, StrCell("")}) =>
        /\ pc = "done"
        /\ "error" \in DOMAIN result
        /\ queries = <<>>

\* C4 (as stated): a failure of the query layer on the primary query ends the
\* tool with a result that carries an error field
C4_PrimaryFailurePropagates ==
    (pc = "done" /\ queryFailed) => "error" \in DOMAIN result

\* the values the warehouse relates to an id, in table order
RelatedValues(r, idstr) ==
    LET matching == SelectSeq(Table(r), LAMBDA row : PyStr(row[1]) = idstr)
    IN  [i \in 1..Len(matching) |-> matching[i][2]]

\* what a record carries for a relation after the lookups settled
Carried(rec, r) ==
    CASE r = "labels" -> rec.labels
      [] r = "comments" -> rec.comments
      [] r = "links" -> rec.links

MergedRelations == IF op = "list" THEN {"labels", "links"} ELSE Relations

\* C5: when lookups fail the tool still succeeds; a record carries an empty
\* list for a relation whose lookup failed, as it does for one without data,
\* and the related values for a relation whose lookup succeeded
C5_FailSoftEnrichment ==
    (pc = "done" /\ op \in {"list", "details"} /\ tasks # NoTasks) =>
        /\ "error" \notin DOMAIN result
        /\ LET recs == IF op = "list" THEN result.issues ELSE result.found_issues
           IN  \A i \in 1..Len(recs) : \A r \in MergedRelations :
                   Carried(recs[i], r) =
                       IF tasks[r].status = "failed" THEN <<>>
                       ELSE RelatedValues(r, PyStr(recs[i].id))

\* the comments lookup failed, labels and links were found
C5_Witness ==
    /\ Succeeded /\ op = "details"
    /\ tasks["comments"].status = "failed"
    /\ tasks["labels"].status = "ok" /\ tasks["links"].status = "ok"
    /\ \E i \in 1..Len(result.found_issues) :
           /\ result.found_issues[i].labels = <<StrCell("bug"), StrCell("ui")>>
           /\ result.found_issues[i].links = <<StrCell("l1"), StrCell("l2")>>
           /\ result.found_issues[i].comments = <<>>

\* the fragments of one kind among the conditions of the query
FragmentsOf(kind) ==
    {i \in 1..Len(sql_conditions) : sql_conditions[i].kind = kind}

SpecificDays ==
    filters.created_days > 0 \/ filters.updated_days > 0 \/ filters.resolved_days > 0

\* whether the conditions hold exactly one fragment of the kind, for that
\* many days, when days is positive and none otherwise
OneFragmentIff(kind, days) ==
    IF days > 0
    THEN /\ Cardinality(FragmentsOf(kind)) = 1
         /\ \A i \in FragmentsOf(kind) : sql_conditions[i].days = days
    ELSE FragmentsOf(kind) = {}

\* C6: when one of created_days, updated_days, resolved_days is positive the
\* conditions hold one fragment per positive field and no timeframe fragment;
\* the timeframe fragment is there only when none of them is positive and
\* timeframe is positive
C6_DatePrecedence ==
    (op = "list" /\ pc = "primary") =>
        /\ OneFragmentIff("created", filters.created_days)
        /\ OneFragmentIff("updated", filters.updated_days)
        /\ OneFragmentIff("resolved", filters.resolved_days)
        /\ OneFragmentIff("timeframe", IF SpecificDays THEN 0 ELSE filters.timeframe)

\* created_days and timeframe both given: only the created fragment
C6_Witness ==
    /\ op = "list" /\ pc = "primary"
    /\ filters.created_days = 1 /\ filters.timeframe = 2
    /\ filters.updated_days = 0 /\ filters.resolved_days = 0
    /\ sql_conditions = <<[kind |-> "created", days |-> 1]>>

\* the component names a COMPONENT_NAMES text stands for: the pieces between
\* the "||" separators, trimmed, without the empty ones
NamesIn(text) ==
    CASE text = Text(<<"A", "|", "|", "B">>) -> <<<<"A">>, <<"B">>>>
      [] text = Text(<<"B", "|", "|", "C">>) -> <<<<"B">>, <<"C">>>>
      [] text = Text(<<" ", "A", " ", "|", "|", " ", "B", " ">>) -> <<<<"A">>, <<"B">>>>
      [] text = Text(<<"A", "|", "|", "|", "|", "B", "|", "|">>) -> <<<<"A">>, <<"B">>>>
      [] OTHER -> <<>>

\* the rows the aggregation reads: the layout's width and an id
ReadRows == SelectSeq(rows, LAMBDA row : Len(row) = 3 /\ row[1] # None)

\* the position of the first row with the id
FirstRowOf(idstr) ==
    CHOOSE i \in 1..Len(ReadRows) :
        /\ PyStr(ReadRows[i][1]) = idstr
        /\ \A j \in 1..(i - 1) : PyStr(ReadRows[j][1]) # idstr

\* the positions <<row, piece>> of a name among the rows of an id
NamePositions(idstr, name) ==
    {<<i, k>> \in (1..Len(ReadRows)) \X (1..4) :
        /\ PyStr(ReadRows[i][1]) = idstr
        /\ k \in DOMAIN NamesIn(ReadRows[i][3])
        /\ NamesIn(ReadRows[i][3])[k] = name}

Earlier(p, q) == p[1] < q[1] \/ (p[1] = q[1] /\ p[2] < q[2])

\* whether some position of name a comes before every position of name b
FirstSeenBefore(idstr, a, b) ==
    \E p \in NamePositions(idstr, a) :
        \A q \in NamePositions(idstr, b) : Earlier(p, q)

\* C7: list_jira_issues keeps one record per id in the order the ids are first
\* seen in the rows, and a record's component list holds the names of all rows
\* with its id, each once, in the order they are first seen
C7_FirstSeenOrder ==
    (op = "list" /\ pc \in {"enrich", "done"} /\ "error" \notin DOMAIN result) =>
        /\ {PyStr(issues[i].id) : i \in 1..Len(issues)}
               = {PyStr(ReadRows[i][1]) : i \in 1..Len(ReadRows)}
        /\ \A i, j \in 1..Len(issues) :
               i < j => FirstRowOf(PyStr(issues[i].id)) < FirstRowOf(PyStr(issues[j].id))
        /\ \A i \in 1..Len(issues) :
               LET idstr == PyStr(issues[i].id)
                   comps == issues[i].component
               IN  /\ \A k, l \in 1..Len(comps) :
                          k < l => /\ comps[k] # comps[l]
                                   /\ FirstSeenBefore(idstr, comps[k], comps[l])
                   /\ \A name \in {<<"A">>, <<"B">>, <<"C">>, <<>>, <<" ", "A", " ">>} :
                          (NamePositions(idstr, name) # {}) <=> (name \in Range(comps))
        /\ pc = "done" =>
               /\ Len(result.issues) = Len(issues)
               /\ \A i \in 1..Len(issues) :
                      /\ result.issues[i].id = issues[i].id
                      /\ result.issues[i].component = issues[i].component

\* rows (1, "A||B"), (1, "B||C"), (2, null): A, B, C for 1 and nothing for 2
C7_Witness ==
    /\ op = "list" /\ pc = "done"
    /\ Len(rows) = 3
    /\ rows[1] = <<IntCell(1), StrCell("X-1"), Text(<<"A", "|", "|", "B">>)>>
    /\ rows[2] = <<IntCell(1), StrCell("X-1"), Text(<<"B", "|", "|", "C">>)>>
    /\ rows[3][1] = IntCell(2) /\ NamesIn(rows[3][3]) = <<>>
    /\ Len(result.issues) = 2
    /\ result.issues[1].id = IntCell(1)
    /\ result.issues[1].component = <<<<"A">>, <<"B">>, <<"C">>>>
    /\ result.issues[2].id = IntCell(2)
    /\ result.issues[2].component = <<>>

\* the number a COUNT cell stands for; a null counts nothing
CountValue(cell) ==
    CASE cell = IntCell(2) -> 2
      [] cell = IntCell(3) -> 3
      [] cell = StrCell("3") -> 3
      [] OTHER -> 0

RECURSIVE SumSeq(_)
SumSeq(s) == IF s = <<>> THEN 0 ELSE s[1] + SumSeq(Tail(s))

TotalCount(rs) == SumSeq([i \in 1..Len(rs) |-> CountValue(rs[i][4])])

WellFormedSummaryRows == \A i \in 1..Len(rows) : Len(rows[i]) = 4

\* C8: over rows (project, status, priority, count) the summary's total_issues
\* is the sum of all counts, total_projects the number of distinct projects,
\* a project's total_issues the sum of its rows' counts, and its statuses and
\* priorities map each value to the sum of the counts of the project's rows
\* that carry it
C8_SummarySums ==
    (Succeeded /\ op = "summary" /\ WellFormedSummaryRows) =>
        LET projectsIn == {rows[i][1] : i \in 1..Len(rows)}
            of(p) == SelectSeq(rows, LAMBDA row : row[1] = p)
        IN  /\ result.total_issues = TotalCount(rows)
            /\ result.total_projects = Cardinality(projectsIn)
            /\ DOMAIN result.projects = projectsIn
            /\ \A p \in projectsIn :
                   /\ result.projects[p].total_issues = TotalCount(of(p))
                   /\ DOMAIN result.projects[p].statuses
                          = {of(p)[i][2] : i \in 1..Len(of(p))}
                   /\ \A st \in DOMAIN result.projects[p].statuses :
                          result.projects[p].statuses[st]
                              = TotalCount(SelectSeq(of(p), LAMBDA row : row[2] = st))
                   /\ DOMAIN result.projects[p].priorities
                          = {of(p)[i][3] : i \in 1..Len(of(p))}
                   /\ \A pr \in DOMAIN result.projects[p].priorities :
                          result.projects[p].priorities[pr]
                              = TotalCount(SelectSeq(of(p), LAMBDA row : row[3] = pr))

\* rows (P1, Open, High, 3), (P1, Closed, Low, 2)
C8_Witness ==
    /\ Succeeded /\ op = "summary"
    /\ rows = <<<<StrCell("P1"), StrCell("Open"), StrCell("High"), IntCell(3)>>,
                <<StrCell("P1"), StrCell("Closed"), StrCell("Low"), IntCell(2)>>>>
    /\ result.total_issues = 5
    /\ result.total_projects = 1
    /\ result.projects[StrCell("P1")].total_issues = 5
    /\ result.projects[StrCell("P1")].statuses[StrCell("Open")] = 3
    /\ result.projects[StrCell("P1")].statuses[StrCell("Closed")] = 2
    /\ result.projects[StrCell("P1")].priorities[StrCell("High")] = 3
    /\ result.projects[StrCell("P1")].priorities[StrCell("Low")] = 2

\* C9: in get_jira_issue_links, a key-to-id lookup without rows ends with an
\* error and without a link lookup; otherwise the link lookup, and no other,
\* runs for the id of the first row, and the result carries the key, that id,
\* the links the lookup returned for it and their number
C9_LinksLookup ==
    (op = "links" /\ queries # <<>> /\ pc \in {"enrich", "done"}) =>
        IF rows = <<>>
        THEN /\ pc = "done"
             /\ "error" \in DOMAIN result
             /\ ~queryFailed => result.error = "Issue with key not found"
             /\ tasks = NoTasks
             /\ queries = <<"primary">>
        ELSE /\ issue_ids = <<PyStr(rows[1][1])>>
             /\ tasks["links"].status # "idle"
             /\ tasks["labels"].status = "idle" /\ tasks["comments"].status = "idle"
             /\ \A i \in 2..Len(queries) : queries[i] = "links"
             /\ Len(queries) <= 2
             /\ pc = "done" =>
                    /\ "error" \notin DOMAIN result
                    /\ result.issue_key = issue_key
                    /\ result.issue_id = PyStr(rows[1][1])
                    /\ result.links =
                           IF result.issue_id \in DOMAIN tasks["links"].data
                           THEN tasks["links"].data[result.issue_id]
                           ELSE <<>>
                    /\ result.total_links = Len(result.links)

\* the key resolved to id 1, whose two links were returned
C9_Witness ==
    /\ op = "links" /\ pc = "done"
    /\ rows = <<<<IntCell(1)>>>>
    /\ queries = <<"primary", "links">>
    /\ result.issue_id = "1"
    /\ result.links = <<StrCell("l1"), StrCell("l2")>>
    /\ result.total_links = 2

\* C10 (as amended): get_jira_issue_details with an empty key list issues no
\* query; it returns the zero shape when the credential check passes and the
\* authentication error otherwise
C10_EmptyKeysNoQuery ==
    (op = "details" /\ issue_keys = <<>>) =>
        /\ pc = "done"
        /\ queries = <<>>
        /\ IF CredentialMissing
           THEN "error" \in DOMAIN result /\ result.error \in AuthMessages
           ELSE /\ DOMAIN result = {"found_issues", "not_found", "total_found",
                                    "total_requested"}
                /\ result.found_issues = <<>>
                /\ result.not_found = <<>>
                /\ result.total_found = 0
                /\ result.total_requested = 0

\* an empty key list with a good token
C10_Witness ==
    /\ op = "details" /\ issue_keys = <<>> /\ pc = "done"
    /\ ~CredentialMissing
    /\ queries = <<>>
    /\ result.total_found = 0 /\ result.total_requested = 0
    /\ result.found_issues = <<>> /\ result.not_found = <<>>

\* C10 (as stated): get_jira_issue_details with an empty key list returns the
\* zero shape and issues no query
C10_EmptyKeysZeroShape ==
    (op = "details" /\ issue_keys = <<>> /\ pc = "done") =>
        /\ "error" \notin DOMAIN result
        /\ result.total_found = 0 /\ result.total_requested = 0
        /\ result.found_issues = <<>> /\ result.not_found = <<>>
        /\ queries = <<>>

\* C11: enrichment over an empty id list gives empty mappings for labels,
\* comments and links and issues no query, as in list_jira_issues when the
\* primary query matched no issue
C11_EmptyIdsNoQueries ==
    /\ ~LookupQueries(<<>>)
    /\ \A response \in {NoResponse, Raising, NoData, [data |-> Table("labels")]} :
           get_issue_labels(<<>>, response) = EmptyDict
    /\ (op = "list" /\ pc \in {"enrich", "done"} /\ tasks # NoTasks /\ issue_ids = <<>>) =>
           /\ \A r \in Relations :
                  tasks[r].status = "ok" /\ tasks[r].data = EmptyDict
           /\ queries = <<"primary">>
           /\ pc = "done" => ("error" \notin DOMAIN result /\ result.issues = <<>>)

\* list_jira_issues whose query matched no issue has returned
C11_Witness ==
    /\ op = "list" /\ pc = "done"
    /\ ~queryFailed /\ rows = <<>>
    /\ issue_ids = <<>>
    /\ \A r \in Relations : tasks[r].status = "ok" /\ tasks[r].data = EmptyDict
    /\ queries = <<"primary">>
    /\ result = [issues |-> <<>>, total_returned |-> 0]

\* the two results that carry an error without a failure of the credential
\* or of the query layer: an issue key that matches no row, and a COUNT that
\* is no number
NoRowForKey == op = "links" /\ rows = <<>>

CountNotANumber ==
    /\ op = "summary"
    /\ \E i \in 1..Len(rows) : Len(rows[i]) = 4 /\ rows[i][4] = StrCell("many")

QuotesBefore(chars, n) == Cardinality({i \in 1..n : chars[i] = Quote})

\* whether positions i..j of chars are a maximal run of quotes
MaximalQuoteRun(chars, i, j) ==
    /\ i <= j
    /\ \A k \in i..j : chars[k] = Quote
    /\ i = 1 \/ chars[i - 1] # Quote
    /\ j = Len(chars) \/ chars[j + 1] # Quote

\* C13: sanitize_sql_value of a string is the string with every quote
\* replaced by two quotes and no other change, so that every maximal run of
\* quotes of the result has even length; O'Brien gives O''Brien; of a value
\* that is no string it is the string form
C13_QuotesDoubled ==
    (op = "links" /\ pc = "primary" /\ sql_conditions # <<>>) =>
        LET in == issue_key
            out == sql_conditions[1].value.v
        IN  /\ sql_conditions[1].value.t = "str"
            /\ in.t = "str" =>
                   /\ Len(out) = Len(in.v) + QuotesBefore(in.v, Len(in.v))
                   /\ \A i \in 1..Len(in.v) :
                          LET at == i + QuotesBefore(in.v, i - 1)
                          IN  /\ out[at] = in.v[i]
                              /\ in.v[i] = Quote => out[at + 1] = Quote
                   /\ \A i, j \in 1..Len(out) :
                          MaximalQuoteRun(out, i, j) => (j - i + 1) % 2 = 0
            /\ in = Text(<<"O", Quote, "B", "r", "i", "e", "n">>) =>
                   out = <<"O", Quote, Quote, "B", "r", "i", "e", "n">>
            /\ in = None => out = <<"N", "o", "n", "e">>
            /\ in = IntCell(7) => out = <<"7">>

\* a string with two separate quotes, both doubled
C13_Witness ==
    /\ op = "links" /\ pc = "primary"
    /\ issue_key = Text(<<Quote, "O", Quote>>)
    /\ sql_conditions[1].value = Text(<<Quote, Quote, "O", Quote, Quote>>)

\* whether x is a list (a sequence, possibly empty)
IsList(x) == DOMAIN x = 1..Len(x)

\* C14: every record of a successful result of list_jira_issues carries a
\* labels list and a links list and no comments field, whatever the comments
\* lookup returned
C14_ListWithoutComments ==
    (Succeeded /\ op = "list") =>
        \A i \in 1..Len(result.issues) :
            /\ "labels" \in DOMAIN result.issues[i]
            /\ IsList(result.issues[i].labels)
            /\ "links" \in DOMAIN result.issues[i]
            /\ IsList(result.issues[i].links)
            /\ "comments" \notin DOMAIN result.issues[i]

\* the comments lookup returned a comment of issue 1, which the list leaves out
C14_Witness ==
    /\ Succeeded /\ op = "list"
    /\ tasks["comments"].status = "ok"
    /\ "1" \in DOMAIN tasks["comments"].data
    /\ \E i \in 1..Len(result.issues) :
           /\ PyStr(result.issues[i].id) = "1"
           /\ result.issues[i].labels # <<>>
           /\ result.issues[i].links # <<>>
           /\ "comments" \notin DOMAIN result.issues[i]

Enriching == op \in {"list", "details"} /\ tasks # NoTasks /\ issue_ids # <<>>

\* C15: for a non-empty id list the enrichment issues exactly the three
\* lookups labels, comments and links, all three are running together when it
\* starts, and the handler goes on to the merge only when all three have
\* settled, in whatever order they complete or fail
C15_WaitsForAllThree ==
    [][/\ (Enriching' /\ pc' \in {"enrich", "done"}) =>
              queries' = <<"primary", "labels", "comments", "links">>
       /\ (pc = "primary" /\ pc' = "enrich" /\ Enriching') =>
              \A r \in Relations : tasks'[r].status = "running"
       /\ (pc = "enrich" /\ pc' = "done" /\ Enriching) =>
              /\ \A r \in Relations : tasks[r].status \in {"ok", "failed"}
              /\ tasks' = tasks
       /\ (Enriching' /\ pc' = "enrich") => result' = NoResult]_vars

\* one lookup has failed, one has completed and one is still running: the
\* handler is still waiting
C15_Witness ==
    /\ op = "details" /\ pc = "enrich"
    /\ issue_ids # <<>>
    /\ tasks["comments"].status = "failed"
    /\ tasks["links"].status = "ok"
    /\ tasks["labels"].status = "running"
    /\ result = NoResult

\* the component names of the rows of the details query that carry the key
RowComponentNames(key) ==
    {rows[i][3] : i \in {j \in 1..Len(rows) :
                            Len(rows[j]) = 3 /\ rows[j][2] = key /\ rows[j][3] # None}}

\* the component names a record of found_issues carries
RecordComponentNames(rec) ==
    IF rec.component_name = None THEN {} ELSE {rec.component_name}

\* C16 (as stated): get_jira_issue_details yields one record for an issue that
\* matches several component rows, and the record carries the distinct
\* component names of all those rows
C16_DetailsComponentNames ==
    (Succeeded /\ op = "details") =>
        \A i \in 1..Len(result.found_issues) :
            /\ \A j \in 1..Len(result.found_issues) :
                   result.found_issues[j].key = result.found_issues[i].key => j = i
            /\ RecordComponentNames(result.found_issues[i])
                   = RowComponentNames(result.found_issues[i].key)

\* C17 (as stated): every record of found_issues of a successful result of
\* get_jira_issue_details carries a labels, a comments and a links list
C17_DetailsRecordsEnriched ==
    (Succeeded /\ op = "details") =>
        \A i \in 1..Len(result.found_issues) :
            /\ {"labels", "comments", "links"} \subseteq DOMAIN result.found_issues[i]
            /\ IsList(result.found_issues[i].labels)
            /\ IsList(result.found_issues[i].comments)
            /\ IsList(result.found_issues[i].links)

\* C18 (as stated): in every successful result of get_jira_issue_details,
\* total_found plus the length of not_found is total_requested
C18_TotalsAddUp ==
    (Succeeded /\ op = "details") =>
        result.total_found + Len(result.not_found) = result.total_requested

\* C19: the keys of the mapping a lookup returns are string forms of the ids
\* it was asked for, and the merge finds by str(id) every related row of a
\* record's id, whether the id, or the ISSUE cell of the related row, arrived
\* as a number or as a string
C19_StringKeys ==
    pc \in {"enrich", "done"} =>
        /\ \A r \in Relations : \A k \in DOMAIN tasks[r].data : k \in Range(issue_ids)
        /\ (Succeeded /\ op \in {"list", "details"} /\ tasks # NoTasks) =>
               LET recs == IF op = "list" THEN result.issues ELSE result.found_issues
               IN  \A i \in 1..Len(recs) : \A r \in MergedRelations :
                       tasks[r].status = "ok" =>
                           \A n \in 1..Len(Table(r)) :
                               PyStr(Table(r)[n][1]) = PyStr(recs[i].id) =>
                                   Contains(Carried(recs[i], r), Table(r)[n][2])

\* id 1 arrived as a string and its links are stored under a number; id 2
\* arrived as a number and its link is stored under a string
C19_Witness ==
    /\ Succeeded /\ op = "list"
    /\ Len(result.issues) = 2
    /\ result.issues[1].id = StrCell("1")
    /\ result.issues[1].links = <<StrCell("l1"), StrCell("l2")>>
    /\ result.issues[1].labels = <<StrCell("bug"), StrCell("ui")>>
    /\ result.issues[2].id = IntCell(2)
    /\ result.issues[2].links = <<StrCell("l3")>>
    /\ DOMAIN tasks["links"].data = {"1", "2"}

\* C20 (as stated): get_issue_labels puts exactly the ids that consist of
\* decimal digits only into the IN-clause of its query, in their order, and
\* when there is none it returns an empty mapping without a query
C20_NonDecimalDropped ==
    (op = "lookup" /\ pc \in {"enrich", "done"}) =>
        LET decimal == SelectSeq(issue_ids, IsDecimal)
        IN  IF decimal = <<>>
            THEN /\ queries = <<>>
                 /\ sql_conditions = <<>>
                 /\ tasks["labels"] = [status |-> "ok", data |-> EmptyDict]
            ELSE /\ queries = <<"labels">>
                 /\ sql_conditions = <<[kind |-> "issue_in", ids |-> decimal]>>

\* a row of the list query that has the width of the layout and an id
WellFormedRow(row) == Len(row) = Len(ListColumns) /\ row[1] # None

\* C21: rows of the list query with a null id, rows of another width among
\* them, are skipped: the records, the ids handed to the lookups and the
\* result are those of the same rows without the malformed ones, and the
\* result is a success
C21_MalformedRowsSkipped ==
    (op = "list" /\ pc \in {"enrich", "done"} /\ ~queryRaised
        /\ Contains(queries, "primary")) =>
        LET clean == AggregateListRows(SelectSeq(rows, WellFormedRow))
        IN  /\ issue_ids = clean.issue_ids
            /\ pc = "enrich" => issues = clean.issues
            /\ pc = "done" =>
                   /\ "error" \notin DOMAIN result
                   /\ result = ListResult(EnrichList(clean.issues,
                                   tasks["labels"].data, tasks["links"].data))

\* list_jira_issues has returned for rows of which one has a null id, one is
\* too short and one is well-formed
C21_Witness ==
    /\ op = "list" /\ pc = "done"
    /\ Contains(rows, <<None, None, NoneText>>)
    /\ Contains(rows, <<IntCell(1)>>)
    /\ \E i \in 1..Len(rows) : WellFormedRow(rows[i])
    /\ "issues" \in DOMAIN result /\ Len(result.issues) = 1

\* the fragments of a scalar filter are: none when the argument is absent or
\* empty, and otherwise one equality of the column with the argument
OneEqualityIff(kind, column, arg, compared) ==
    IF arg.t = "str" /\ arg.v # <<>>
    THEN /\ Cardinality(FragmentsOf(kind)) = 1
         /\ \A i \in FragmentsOf(kind) :
                /\ sql_conditions[i].column = column
                /\ sql_conditions[i].equals = Text(ReplaceQuotes(compared))
    ELSE FragmentsOf(kind) = {}

\* whether no argument of the call filters anything
NoFilterSupplied ==
    /\ \A a \in {filters.project, filters.issue_type, filters.status,
                 filters.priority, filters.search_text, filters.components} :
           ~(a.t = "str" /\ a.v # <<>>)
    /\ \A d \in {filters.created_days, filters.updated_days,
                 filters.resolved_days, filters.timeframe} : d <= 0

\* C22: the conditions of list_jira_issues hold one equality fragment for each
\* of project (upper-cased), issue_type, status and priority that is given and
\* not empty, none for one that is absent or empty; the WHERE clause joins
\* the conditions with AND, and there is none when no filter is given
C22_ScalarFragments ==
    (op = "list" /\ pc = "primary") =>
        LET where_clause == WhereClause(sql_conditions)
            n == Len(sql_conditions)
        IN  /\ OneEqualityIff("project", "i.PROJECT", filters.project,
                              Upper(filters.project.v))
            /\ OneEqualityIff("issue_type", "i.ISSUETYPE", filters.issue_type,
                              filters.issue_type.v)
            /\ OneEqualityIff("status", "i.ISSUESTATUS", filters.status,
                              filters.status.v)
            /\ OneEqualityIff("priority", "i.PRIORITY", filters.priority,
                              filters.priority.v)
            /\ NoFilterSupplied => where_clause = <<>>
            /\ n > 0 =>
                   /\ Len(where_clause) = 2 * n
                   /\ where_clause[1] = Keyword("WHERE")
                   /\ \A k \in 1..n : where_clause[2 * k] = sql_conditions[k]
                   /\ \A k \in 1..(n - 1) : where_clause[2 * k + 1] = Keyword("AND")

\* a call with a mixed-case project holding a quote, an empty status, no
\* issue_type and a priority: two fragments
C22_Witness ==
    /\ op = "list" /\ pc = "primary"
    /\ filters.project = Text(<<"A", Quote, "b">>)
    /\ filters.issue_type = NoneText
    /\ filters.status = Text(<<>>)
    /\ filters.priority = Text(<<"B", "a">>)
    /\ sql_conditions =
           <<Equality("project", "i.PROJECT", Text(<<"A", Quote, Quote, "B">>)),
             Equality("priority", "i.PRIORITY", Text(<<"B", "a">>))>>

\* the characters of the components argument
ComponentChars == IF filters.components.t = "str" THEN filters.components.v ELSE <<>>

\* the places at which the argument is cut: its commas and its two ends
Cuts == {0, Len(ComponentChars) + 1} \cup {i \in 1..Len(ComponentChars) : ComponentChars[i] = ","}

\* the pieces between neighbouring cuts that hold a character other than a
\* space, as <<cut before, cut after>>
KeptPieces ==
    {p \in Cuts \X Cuts :
        /\ p[1] < p[2]
        /\ \A c \in Cuts : ~(p[1] < c /\ c < p[2])
        /\ \E i \in (p[1] + 1)..(p[2] - 1) : ComponentChars[i] # " "}

\* a piece without the spaces at its ends, in lower case and with its quotes
\* doubled
TermOfPiece(p) ==
    LET inside == {i \in (p[1] + 1)..(p[2] - 1) : ComponentChars[i] # " "}
        first == CHOOSE i \in inside : \A j \in inside : i <= j
        last == CHOOSE i \in inside : \A j \in inside : j <= i
    IN  ReplaceQuotes(Lower(SubSeq(ComponentChars, first, last)))

\* the place of a kept piece among the kept pieces
RankOfPiece(p) == Cardinality({q \in KeptPieces : q[1] <= p[1]})

\* C23: the components argument gives no fragment when none of its
\* comma-separated pieces holds more than spaces, and otherwise exactly one
\* fragment, the OR of one test of component name or description per piece,
\* on the trimmed lower-case piece, in the order of the pieces
C23_ComponentsFragment ==
    (op = "list" /\ pc = "primary") =>
        IF KeptPieces = {}
        THEN FragmentsOf("components") = {}
        ELSE /\ Cardinality(FragmentsOf("components")) = 1
             /\ \A i \in FragmentsOf("components") :
                    /\ Len(sql_conditions[i].any_of) = Cardinality(KeptPieces)
                    /\ \A p \in KeptPieces :
                           sql_conditions[i].any_of[RankOfPiece(p)] =
                               [either |-> <<"c.CNAME", "c.DESCRIPTION">>,
                                like |-> Text(TermOfPiece(p))]

\* a call with the components " a' ,,B ": the fragment tests a'' and then b
C23_Witness ==
    /\ op = "list" /\ pc = "primary"
    /\ filters.components = Text(<<" ", "a", Quote, " ", ",", ",", "B", " ">>)
    /\ sql_conditions =
           <<[kind |-> "components",
              any_of |-> <<EitherLike("c.CNAME", "c.DESCRIPTION",
                                      Text(<<"a", Quote, Quote>>)),
                           EitherLike("c.CNAME", "c.DESCRIPTION", Text(<<"b">>))>>]>>

====
